---- MODULE Spec2Model ----
(***************************************************************************)
(* Leave-one-out attribution engine of src/eval.py: build_sources (cache   *)
(* and override resolution), build_prompt, call_gpt4o (retry, backoff and  *)
(* truncation), compute_quality and run_loo.                               *)
(*                                                                         *)
(* Strings of the program are modelled as follows: identifiers, titles and *)
(* URLs are TLA+ strings; a text (a document's text, a prompt's content)   *)
(* is a sequence of one-token strings, so that len() and slicing are Len   *)
(* and SubSeq.  A Python dict is a function whose domain is the set of its *)
(* keys; None and a missing key are both "the key is not in the domain".   *)
(* Qualities are in hundredths (90 stands for 0.90).  The text of the JSON  *)
(* store is the list of its members.                                       *)
(*                                                                         *)
(* Three specifications: SpecBuild (one call of build_sources, every shape *)
(* of overrides and store), Spec (one call of run_loo, providers and       *)
(* scorer answering as they like) and SpecTwoRuns (run_loo called twice,   *)
(* providers and scorer answering the same request the same way).          *)
(***************************************************************************)
EXTENDS Integers, Sequences, FiniteSets, TLC

\* ------------------------------------------------------------------ bounds
\* Longest list of URLs handed to run_loo / build_sources.
MaxUrls == 2

\* ------------------------------------------------------- program constants
max_retries == 3
initial_delay == 10

\* The question of the run (one fixed question: no operation branches on it).
query == "q"

URLS == {"u1", "u2"}

\* ------------------------------------------------------------ pure helpers
SeqsUpTo(S, n) == UNION {[1..m -> S] : m \in 0..n}

\* dict.get(key, default)
Get(d, key, default) == IF key \in DOMAIN d THEN d[key] ELSE default

\* `x or default` for a string attribute that may be None (absent) or "".
OrDefault(d, key, empty, default) ==
    IF key \in DOMAIN d /\ d[key] # empty THEN d[key] ELSE default

\* Per-URL literals, so that documents of different origins differ.
Pick(u, a, b) == IF u = "u1" THEN a ELSE b

\* -------------------------------------------------------------- credentials
\* The environment variables the program reads (lines 38 and 128).
Credentials == {"EXA_API_KEY", "OPENAI_API_KEY"}

\* os.environ[name] raises KeyError when the variable is not set.
KeyMissing(env, name) == name \notin env

\* ------------------------------------------------- external content provider
\* The result object the provider holds for URL u: complete for u1, with title
\* and text None for u2.
ExaResult(u) ==
    IF u = "u1"
      THEN [id |-> "exa-1", title |-> "Exa 1", url |-> u, text |-> <<"e", "f">>]
      ELSE [id |-> "exa-2", url |-> u]

\* What exa.get_contents([u]) can do: raise, or answer with a results list.
ExaOutcomes(u) ==
    { [kind |-> "raise", results |-> <<>>],
      [kind |-> "response", results |-> <<>>],
      [kind |-> "response", results |-> <<ExaResult(u)>>] }

\* fetch_exa_content succeeds exactly on a response with a non-empty results
\* list; every other outcome raises.
FetchRaises(o) == o.kind = "raise" \/ o.results = <<>>

\* The Source fetch_exa_content builds from the first result.
fetch_exa_content(o) ==
    LET r == o.results[1]
    IN  [id |-> r["id"],
         title |-> OrDefault(r, "title", "", "(untitled)"),
         url |-> r["url"],
         text |-> OrDefault(r, "text", <<>>, <<>>)]

\* ------------------------------------------------------- overrides and cache
\* exa_mocks is a dict; None behaves like the empty dict (line 76).
\* Shapes of an override for URL u: the document fields directly (complete or
\* only some of them), or a provider envelope (with a result, or empty).
MockFull(u) == [id |-> Pick(u, "mock-1", "mock-2"), title |-> Pick(u, "Mock 1", "Mock 2"),
                url |-> Pick(u, "mock-url-1", "mock-url-2"), text |-> <<"m">>]
MockPartial(u) == [text |-> <<"m", "n">>]
MockShapes(u) ==
    { MockFull(u), MockPartial(u),
      [results |-> <<MockFull(u)>>], [results |-> <<>>] }

\* Entries a repository file can hold for URL u: all four fields (as an earlier
\* run wrote them) or, from an older schema, only some.
EntryFull(u) == [id |-> Pick(u, "old-1", "old-2"), title |-> Pick(u, "Old 1", "Old 2"),
                 url |-> u, text |-> <<"c">>]
EntryPartial(u) == [id |-> Pick(u, "old-1", "old-2")]
EntryShapes(u) == { EntryFull(u), EntryPartial(u) }

\* The dicts an exa_mocks argument can be: any set of URLs, each with one of
\* its override shapes.
MockDicts ==
    UNION { { d \in [D -> UNION {MockShapes(u) : u \in D}] : \A u \in D : d[u] \in MockShapes(u) }
            : D \in SUBSET URLS }

\* The mappings a readable store can hold.
EntryDicts ==
    UNION { { d \in [D -> UNION {EntryShapes(u) : u \in D}] : \A u \in D : d[u] \in EntryShapes(u) }
            : D \in SUBSET URLS }

EmptyDict == [u \in {} |-> u]

\* JSON text is modelled as the list of its members: an object is a sequence
\* of <<name, value>> pairs, a string is itself.  json.dump writes a dict's
\* members one after the other (here in the order of `order`; Python writes
\* them in insertion order, which json.load does not depend on).
JsonObject(d, order) ==
    LET names == SelectSeq(order, LAMBDA x : x \in DOMAIN d)
    IN  [j \in 1..Len(names) |-> <<names[j], d[names[j]]>>]

\* json.load of an object whose values are strings: a dict with one key per
\* member name, the last member of a name giving its value.
JsonLoadObject(members) ==
    [name \in {members[j][1] : j \in DOMAIN members} |->
        members[CHOOSE j \in DOMAIN members :
                    /\ members[j][1] = name
                    /\ \A j2 \in DOMAIN members : j2 > j => members[j2][1] # name][2]]

\* Mutant of json_dump: the text member of an entry is not written.
json_dump_NoText(data) ==
    JsonObject([u \in DOMAIN data |-> JsonObject(data[u], <<"id", "title", "url">>)],
               <<"u1", "u2">>)

\* json.dump(data, f, indent=2, ensure_ascii=False) of the cache mapping
\* URL -> entry.
json_dump(data) ==
    JsonObject([u \in DOMAIN data |-> JsonObject(data[u], <<"id", "title", "url", "text">>)],
               <<"u1", "u2">>)

\* json.load(f) of a store written by json_dump.
json_load(text) ==
    LET top == JsonLoadObject(text)
    IN  [u \in DOMAIN top |-> JsonLoadObject(top[u])]

\* The backing store exa_cache.json: absent, unreadable as JSON, or the JSON
\* text of a mapping.
DiskStates ==
    { [state |-> "absent", data |-> <<>>], [state |-> "corrupt", data |-> <<>>] }
    \cup { [state |-> "ok", data |-> json_dump(d)] : d \in EntryDicts }

\* load_cache: the mapping of a readable store, {} otherwise.
load_cache(file) == IF file.state = "ok" THEN json_load(file.data) ELSE EmptyDict

\* save_cache, the write succeeding: the store now holds the mapping's text.
save_cache(data) == [state |-> "ok", data |-> json_dump(data)]

\* What a failing write of save_cache can leave behind: the store as it was
\* (open raised) or a file cut short (json.dump raised midway).
FailedSaves(file) == { file, [state |-> "corrupt", data |-> <<>>] }

\* Mutant of SourceFromDict: a missing title stays empty.
SourceFromDict_EmptyTitle(m, u) ==
    [id |-> Get(m, "id", u), title |-> Get(m, "title", ""),
     url |-> Get(m, "url", u), text |-> Get(m, "text", <<>>)]

\* The Source built from a dict of document fields with the defaults of
\* build_sources (override branch and cache branch alike).
SourceFromDict(m, u) ==
    [id |-> Get(m, "id", u), title |-> Get(m, "title", "(untitled)"),
     url |-> Get(m, "url", u), text |-> Get(m, "text", <<>>)]

\* The override branch: unwrap a non-empty provider envelope first.
SourceFromMock(m0, u) ==
    LET m == IF "results" \in DOMAIN m0 /\ m0["results"] # <<>> THEN m0["results"][1] ELSE m0
    IN  SourceFromDict(m, u)

\* Mutant of CacheEntry: the entry is written without the title.
CacheEntry_NoTitle(src) == [id |-> src.id, url |-> src.url, text |-> src.text]

\* The entry written to the cache for a fetched Source.
CacheEntry(src) == [id |-> src.id, title |-> src.title, url |-> src.url, text |-> src.text]

\* d[u] = e
Put(d, u, e) == [x \in DOMAIN d \cup {u} |-> IF x = u THEN e ELSE d[x]]

\* ------------------------------------------------------------ build_prompt
sys_msg == <<"You are a factual answer generator. ...">>

\* The positional marker [S<i>] of the i-th source of a prompt.
Marker(i) == CASE i = 1 -> "[S1]" [] i = 2 -> "[S2]" [] i = 3 -> "[S3]"
               [] i = 4 -> "[S4]" [] OTHER -> "[S5+]"

\* f"[S{i}] {s.title} - {s.url}\n{s.text}"
NumberedSource(i, s) == <<Marker(i), s.title, s.url>> \o s.text

\* "\n\n".join(blocks[from..])
RECURSIVE Join(_, _)
Join(blocks, from) ==
    IF from > Len(blocks) THEN <<>>
    ELSE IF from = Len(blocks) THEN blocks[from]
    ELSE blocks[from] \o <<"\n\n">> \o Join(blocks, from + 1)

build_prompt(q, srcs) ==
    LET numbered_sources == [j \in 1..Len(srcs) |-> NumberedSource(j, srcs[j])]
        user_msg == <<"Question:", q, "Sources:">> \o Join(numbered_sources, 1)
    IN  << [role |-> "system", content |-> sys_msg],
           [role |-> "user", content |-> user_msg] >>

\* --------------------------------------------------------------- call_gpt4o
\* Mutant of Truncate: every message is halved, the system message too.
Truncate_EveryMessage(msgs) ==
    [j \in 1..Len(msgs) |-> [msgs[j] EXCEPT !.content = SubSeq(@, 1, Len(@) \div 2)]]

\* m["content"][: len(m["content"]) // 2] for every message of role "user".
Truncate(msgs) ==
    [j \in 1..Len(msgs) |->
        IF msgs[j].role = "user"
          THEN [msgs[j] EXCEPT !.content = SubSeq(@, 1, Len(@) \div 2)]
          ELSE msgs[j]]

\* Mutant of LoopContinues: one iteration too many (range(max_retries + 1)).
LoopContinues_OneMore(a) == a <= max_retries

\* Mutant of LoopContinues: one iteration too few (range(max_retries - 1)).
LoopContinues_OneLess(a) == a + 1 < max_retries

\* for attempt in range(max_retries): is there an iteration for this value?
LoopContinues(a) == a < max_retries

\* What client.chat.completions.create can do: answer, or raise an exception of
\* one of the classes call_gpt4o tells apart, whose message carries the
\* size/quota wording or not.  "APIError" stands for an openai.APIError that
\* is no RateLimitError, "Exception" for an exception that is no APIError.
\* (openai.RateLimitError exists in every openai release that has the OpenAI
\* client class imported at line 13, so the fallback of line 19 is not taken.)
GenFailures ==
    [class : {"RateLimitError", "APIError", "Exception"}, oversized : BOOLEAN]
NoOutcome == [class |-> "none", oversized |-> FALSE]
Answered == [class |-> "ok", oversized |-> FALSE]

\* "Request too large" in err_str or "tokens per min" in err_str or "TPM" in err_str
SaysTooLarge(f) == f.oversized

\* The text the provider answers a request with (temperature 0: a function of
\* the messages it was sent).
Completion(msgs) == [completion_of |-> msgs]
NoAnswer == [completion_of |-> <<>>]

\* ---------------------------------------------------------- compute_quality
\* Rows the scorer can return, in hundredths; the two metrics of a row sum to
\* an even number, so that their mean is a whole number of hundredths.
ScorerRows ==
    { [faithfulness |-> 60, answer_relevancy |-> 60],
      [faithfulness |-> 90, answer_relevancy |-> 90],
      [faithfulness |-> 90, answer_relevancy |-> 100] }
NoRow == [faithfulness |-> 0, answer_relevancy |-> 0]

\* float(sum(scores.values()) / len(scores))
compute_quality(row) == (row.faithfulness + row.answer_relevancy) \div 2

\* ------------------------------------------------------------------ run_loo
\* Mutant of Subset: the slice after the gap starts one element late, so the
\* document after the i-th is left out instead of the i-th.
Subset_OffByOne(srcs, i) == SubSeq(srcs, 1, i + 1) \o SubSeq(srcs, i + 3, Len(srcs))

\* sources[:i] + sources[i+1:]  (i counts from 0)
Subset(srcs, i) == SubSeq(srcs, 1, i) \o SubSeq(srcs, i + 2, Len(srcs))

\* [s.text for s in srcs]
Texts(srcs) == [j \in 1..Len(srcs) |-> srcs[j].text]

\* Mutant of SourcesMeta: the metadata listed in reverse document order.
SourcesMeta_Reversed(srcs) ==
    [j \in 1..Len(srcs) |->
        [id |-> srcs[Len(srcs) + 1 - j].id, title |-> srcs[Len(srcs) + 1 - j].title,
         url |-> srcs[Len(srcs) + 1 - j].url]]

\* [{"id": s.id, "title": s.title, "url": s.url} for s in sources]
SourcesMeta(srcs) ==
    [j \in 1..Len(srcs) |-> [id |-> srcs[j].id, title |-> srcs[j].title, url |-> srcs[j].url]]

\* Mutant of NoSources: the emptiness check is missing.
NoSources_Never(srcs) == FALSE

\* `not sources`
NoSources(srcs) == srcs = <<>>

NoResult == [returned |-> FALSE]

\* ------------------------------------------------------------------- state
VARIABLES
    pc,          \* position of the run: "load", "loop" (build_sources), "returned"
                 \* (build_sources returned), "gen" (call_gpt4o, before an attempt),
                 \* "eval" (before the scorer is invoked), "done", "failed"
    urls,        \* run_loo / build_sources argument
    exa_mocks,   \* run_loo / build_sources argument (the overrides)
    disk,        \* the backing store exa_cache.json
    cache,       \* build_sources: the mapping loaded from the store
    updated,     \* build_sources: a new resolution happened
    k,           \* build_sources: number of URLs of urls already processed
    sources,     \* build_sources: the documents resolved so far; run_loo: sources
    origins,     \* observation: for each document of sources, the index in urls
                 \* of the URL occurrence it was resolved for
    exaCalls,    \* observation: the provider invocations, in order: URL and success
    diskReads,   \* observation: number of load_cache calls
    diskWrites,  \* observation: number of save_cache calls
    saveFailed,  \* observation: a save_cache call caught an exception of its write
    environ,     \* os.environ: the names of the credentials that are set
    phase,       \* run_loo: "none", "full" (full-context run) or "loo" (ablation loop)
    i,           \* run_loo: index of the ablation iteration (from 0)
    subset,      \* run_loo: the documents of the current generation
    messages,    \* the prompt object: full_messages / msg_lo of run_loo and the
                 \* messages parameter of call_gpt4o are the same list
    attempt,     \* call_gpt4o: loop variable
    delay,       \* call_gpt4o: next backoff delay
    invoked,     \* observation: provider invocations of the current call_gpt4o call
    truncs,      \* observation: truncations performed in the current call
    slept,       \* observation: the time.sleep calls of the current call
    genOut,      \* observation: outcome of the latest provider invocation
    genCalls,    \* observation: number of call_gpt4o calls of the run
    full_answer, \* run_loo
    ans_lo,      \* run_loo
    contexts,    \* run_loo: contexts_full / contexts_lo, the scorer's contexts
    scoreCalls,  \* observation: number of scorer invocations of the run
    scorerOuts,  \* observation: the rows the scorer returned in this run, in order
    full_quality,
    full_metrics,
    quality_lo,
    impacts,
    result,      \* the LOOResult run_loo returned, NoResult before and on failure
    error,       \* the exception run_loo ended with ("ValueError", "KeyError",
                 \* "RuntimeError", "Exception", "EvaluationError"), "none" otherwise
    run,         \* which call of run_loo this is: 1, or 2 after a repetition
    first,       \* observation: how the first call of run_loo ended
    exaMemo,     \* the content provider's answers so far: URL -> success
    genMemo,     \* the generation provider's answers so far: messages -> outcome
    scoreMemo    \* the scorer's answers so far: <<answer, contexts>> -> outcome

buildVars == <<urls, exa_mocks, environ, disk, cache, updated, k, sources, origins,
               exaCalls, diskReads, diskWrites, saveFailed>>
callVars == <<messages, attempt, delay, invoked, truncs, slept, genOut, genCalls>>
runVars == <<phase, i, subset, full_answer, ans_lo, contexts, scoreCalls, scorerOuts,
             full_quality, full_metrics, quality_lo, impacts, result>>

worldVars == <<run, first, exaMemo, genMemo, scoreMemo>>

vars == <<pc, error, buildVars, callVars, runVars, worldVars>>

\* ------------------------------------------------------------ build_sources
\* Mutant of Branch: the cache is looked up before the overrides.
Branch_CacheFirst(u, mocks, c) ==
    IF u \in DOMAIN c THEN "cache"
    ELSE IF u \in DOMAIN mocks THEN "override"
    ELSE "fetch"

\* Mutant of Branch: the cache is not consulted.
Branch_NoCache(u, mocks, c) ==
    IF u \in DOMAIN mocks THEN "override" ELSE "fetch"

\* Which branch of the loop body handles URL u.
Branch(u, mocks, c) ==
    IF u \in DOMAIN mocks THEN "override"
    ELSE IF u \in DOMAIN c THEN "cache"
    ELSE "fetch"

\* Mutant of SaveIfUpdated: the cache is saved whether it was updated or not.
SaveIfUpdated_Always(upd, c) ==
    /\ diskWrites' = diskWrites + 1
    /\ \/ disk' = save_cache(c) /\ saveFailed' = saveFailed
       \/ disk' \in FailedSaves(disk) /\ saveFailed' = TRUE

\* if updated: save_cache(cache).  save_cache writes the store, or catches
\* the exception of a failing write, prints a warning and returns.
SaveIfUpdated(upd, c) ==
    IF upd
      THEN /\ diskWrites' = diskWrites + 1
           /\ \/ disk' = save_cache(c) /\ saveFailed' = saveFailed
              \/ disk' \in FailedSaves(disk) /\ saveFailed' = TRUE
      ELSE UNCHANGED <<disk, diskWrites, saveFailed>>

\* Mutant of LoopStep: a failing write of save_cache is not caught and ends
\* build_sources.
LoopStep_SaveRaises(c, s, upd, n) ==
    /\ cache' = c
    /\ sources' = s
    /\ updated' = upd
    /\ k' = n
    /\ IF n < Len(urls)
         THEN pc' = "loop" /\ UNCHANGED <<disk, diskWrites, saveFailed>>
         ELSE /\ SaveIfUpdated(upd, c)
              /\ pc' = IF saveFailed' THEN "failed" ELSE "returned"

\* End of one pass through the loop body with the new values c, s, upd: either
\* the next URL follows, or the loop is over and build_sources saves the cache
\* if it was updated and returns.
LoopStep(c, s, upd, n) ==
    /\ cache' = c
    /\ sources' = s
    /\ updated' = upd
    /\ k' = n
    /\ IF n < Len(urls)
         THEN pc' = "loop" /\ UNCHANGED <<disk, diskWrites, saveFailed>>
         ELSE pc' = "returned" /\ SaveIfUpdated(upd, c)

\* cache = load_cache(); sources = []; updated = False
LoadCache ==
    /\ pc = "load"
    /\ diskReads' = diskReads + 1
    /\ LoopStep(load_cache(disk), <<>>, FALSE, 0)
    /\ UNCHANGED <<urls, exa_mocks, environ, origins, exaCalls, error, callVars, runVars>>

\* Mutant of ResolveOverride: the document of the override is written to the
\* cache as well.
ResolveOverride_WriteThrough ==
    /\ pc = "loop"
    /\ LET u == urls[k + 1]
       IN  /\ Branch(u, exa_mocks, cache) = "override"
           /\ LoopStep(Put(cache, u, CacheEntry(SourceFromMock(exa_mocks[u], u))),
                       Append(sources, SourceFromMock(exa_mocks[u], u)), TRUE, k + 1)
    /\ origins' = Append(origins, k + 1)
    /\ UNCHANGED <<urls, exa_mocks, environ, exaCalls, diskReads, error, callVars, runVars>>

\* Loop body, first branch: the URL has an override.
ResolveOverride ==
    /\ pc = "loop"
    /\ LET u == urls[k + 1]
       IN  /\ Branch(u, exa_mocks, cache) = "override"
           /\ LoopStep(cache, Append(sources, SourceFromMock(exa_mocks[u], u)), updated, k + 1)
    /\ origins' = Append(origins, k + 1)
    /\ UNCHANGED <<urls, exa_mocks, environ, exaCalls, diskReads, error, callVars, runVars>>

\* Loop body, second branch: no override, the cache holds the URL.
ResolveCached ==
    /\ pc = "loop"
    /\ LET u == urls[k + 1]
       IN  /\ Branch(u, exa_mocks, cache) = "cache"
           /\ LoopStep(cache, Append(sources, SourceFromDict(cache[u], u)), updated, k + 1)
    /\ origins' = Append(origins, k + 1)
    /\ UNCHANGED <<urls, exa_mocks, environ, exaCalls, diskReads, error, callVars, runVars>>

\* Mutant of ResolveFetched: the fetched Source is appended but not written to
\* the cache.
ResolveFetched_NotCached ==
    /\ pc = "loop"
    /\ LET u == urls[k + 1]
       IN  /\ Branch(u, exa_mocks, cache) = "fetch"
           /\ ~KeyMissing(environ, "EXA_API_KEY")
           /\ \E o \in ExaOutcomes(u) :
                /\ ~FetchRaises(o)
                /\ LoopStep(cache, Append(sources, fetch_exa_content(o)), TRUE, k + 1)
           /\ exaCalls' = Append(exaCalls, [url |-> u, ok |-> TRUE])
    /\ origins' = Append(origins, k + 1)
    /\ UNCHANGED <<urls, exa_mocks, environ, diskReads, error, callVars, runVars>>

\* Loop body, third branch, the provider answers with a result: the Source is
\* written to the cache and appended.
ResolveFetched ==
    /\ pc = "loop"
    /\ LET u == urls[k + 1]
       IN  /\ Branch(u, exa_mocks, cache) = "fetch"
           /\ ~KeyMissing(environ, "EXA_API_KEY")
           /\ \E o \in ExaOutcomes(u) :
                /\ ~FetchRaises(o)
                /\ LET src == fetch_exa_content(o)
                   IN  LoopStep(Put(cache, u, CacheEntry(src)), Append(sources, src),
                                TRUE, k + 1)
           /\ exaCalls' = Append(exaCalls, [url |-> u, ok |-> TRUE])
    /\ origins' = Append(origins, k + 1)
    /\ UNCHANGED <<urls, exa_mocks, environ, diskReads, error, callVars, runVars>>

\* Mutant of ResolveSkipped: the exception of fetch_exa_content is not caught
\* and ends build_sources.
ResolveSkipped_Aborts ==
    /\ pc = "loop"
    /\ LET u == urls[k + 1]
       IN  /\ Branch(u, exa_mocks, cache) = "fetch"
           /\ ~KeyMissing(environ, "EXA_API_KEY")
           /\ \E o \in ExaOutcomes(u) : FetchRaises(o)
           /\ exaCalls' = Append(exaCalls, [url |-> u, ok |-> FALSE])
    /\ pc' = "failed"
    /\ error' = "Exception"
    /\ UNCHANGED <<urls, exa_mocks, environ, disk, cache, updated, k, sources, origins,
                   diskReads, diskWrites, saveFailed, callVars, runVars>>

\* Loop body, third branch, fetch_exa_content raises: warning, continue.
ResolveSkipped ==
    /\ pc = "loop"
    /\ LET u == urls[k + 1]
       IN  /\ Branch(u, exa_mocks, cache) = "fetch"
           /\ ~KeyMissing(environ, "EXA_API_KEY")
           /\ \E o \in ExaOutcomes(u) : FetchRaises(o)
           /\ LoopStep(cache, sources, updated, k + 1)
           /\ exaCalls' = Append(exaCalls, [url |-> u, ok |-> FALSE])
    /\ UNCHANGED <<urls, exa_mocks, environ, origins, diskReads, error, callVars, runVars>>

\* Loop body, third branch, EXA_API_KEY not set: fetch_exa_content raises
\* KeyError before it reaches the provider; build_sources catches it like any
\* other exception of the fetch: warning, continue.
ResolveNoKey ==
    /\ pc = "loop"
    /\ LET u == urls[k + 1]
       IN  /\ Branch(u, exa_mocks, cache) = "fetch"
           /\ KeyMissing(environ, "EXA_API_KEY")
           /\ LoopStep(cache, sources, updated, k + 1)
    /\ UNCHANGED <<urls, exa_mocks, environ, origins, exaCalls, diskReads, error,
                   callVars, runVars>>

\* --------------------------------------------------------------- call_gpt4o
\* Mutant of EnterCall: the delay is kept from the previous call.
EnterCall_KeepsDelay(msgs) ==
    /\ messages' = msgs
    /\ attempt' = 0
    /\ delay' = delay
    /\ invoked' = 0
    /\ truncs' = 0
    /\ slept' = <<>>
    /\ genOut' = NoOutcome
    /\ genCalls' = genCalls + 1
    /\ IF KeyMissing(environ, "OPENAI_API_KEY")
         THEN pc' = "failed" /\ error' = "KeyError"
         ELSE IF LoopContinues(0)
                THEN pc' = "gen" /\ error' = error
                ELSE pc' = "failed" /\ error' = "RuntimeError"

\* Entry of call_gpt4o(msgs): the client is built from OPENAI_API_KEY (KeyError
\* when it is not set); max_retries = 3; delay = 10; first iteration.
EnterCall(msgs) ==
    /\ messages' = msgs
    /\ attempt' = 0
    /\ delay' = initial_delay
    /\ invoked' = 0
    /\ truncs' = 0
    /\ slept' = <<>>
    /\ genOut' = NoOutcome
    /\ genCalls' = genCalls + 1
    /\ IF KeyMissing(environ, "OPENAI_API_KEY")
         THEN pc' = "failed" /\ error' = "KeyError"
         ELSE IF LoopContinues(0)
                THEN pc' = "gen" /\ error' = error
                ELSE pc' = "failed" /\ error' = "RuntimeError"

\* End of a failed iteration: the next iteration, or, the loop being over,
\* raise RuntimeError("Failed to call GPT-4o after retries ...").
NextAttempt ==
    /\ attempt' = attempt + 1
    /\ IF LoopContinues(attempt + 1)
         THEN pc' = "gen" /\ error' = error
         ELSE pc' = "failed" /\ error' = "RuntimeError"

\* Mutant of Backoff: no sleep when no attempt is left.
Backoff_NotOnLast ==
    IF LoopContinues(attempt + 1)
      THEN slept' = Append(slept, delay) /\ delay' = delay * 2
      ELSE UNCHANGED <<slept, delay>>

\* time.sleep(delay); delay *= 2
Backoff ==
    /\ slept' = Append(slept, delay)
    /\ delay' = delay * 2

\* Mutant of AttemptSuccess: the contexts of the evaluation are taken from the
\* prompt that was sent.
AttemptSuccess_ContextsFromPrompt ==
    /\ pc = "gen"
    /\ invoked' = invoked + 1
    /\ genOut' = Answered
    /\ IF phase = "full"
         THEN full_answer' = Completion(messages) /\ ans_lo' = ans_lo
         ELSE ans_lo' = Completion(messages) /\ full_answer' = full_answer
    /\ contexts' = <<messages[2].content>>
    /\ pc' = "eval"
    /\ UNCHANGED <<messages, attempt, delay, truncs, slept, genCalls>>
    /\ UNCHANGED <<phase, i, subset, scoreCalls, scorerOuts, full_quality, full_metrics,
                   quality_lo, impacts, result>>
    /\ UNCHANGED <<error, buildVars>>

\* The provider answers: return resp.choices[0].message.content.  Back in
\* run_loo the answer is stored and the contexts of the evaluation are built.
AttemptSuccess ==
    /\ pc = "gen"
    /\ invoked' = invoked + 1
    /\ genOut' = Answered
    /\ IF phase = "full"
         THEN full_answer' = Completion(messages) /\ ans_lo' = ans_lo
         ELSE ans_lo' = Completion(messages) /\ full_answer' = full_answer
    /\ contexts' = Texts(subset)
    /\ pc' = "eval"
    /\ UNCHANGED <<messages, attempt, delay, truncs, slept, genCalls>>
    /\ UNCHANGED <<phase, i, subset, scoreCalls, scorerOuts, full_quality, full_metrics,
                   quality_lo, impacts, result>>
    /\ UNCHANGED <<error, buildVars>>

\* except RateLimitError, the message carries the size/quota wording: the user
\* content is halved in place, no sleep.
AttemptTruncate ==
    /\ pc = "gen"
    /\ \E f \in GenFailures :
         /\ f.class = "RateLimitError"
         /\ SaysTooLarge(f)
         /\ genOut' = f
    /\ invoked' = invoked + 1
    /\ messages' = Truncate(messages)
    /\ truncs' = truncs + 1
    /\ NextAttempt
    /\ UNCHANGED <<delay, slept, genCalls, buildVars, runVars>>

\* except RateLimitError, any other message: sleep and double the delay.
AttemptRateLimited ==
    /\ pc = "gen"
    /\ \E f \in GenFailures :
         /\ f.class = "RateLimitError"
         /\ ~SaysTooLarge(f)
         /\ genOut' = f
    /\ invoked' = invoked + 1
    /\ Backoff
    /\ NextAttempt
    /\ UNCHANGED <<messages, truncs, genCalls, buildVars, runVars>>

\* except openai.APIError (not a RateLimitError), whatever the message: sleep
\* and double the delay.
AttemptAPIError ==
    /\ pc = "gen"
    /\ \E f \in GenFailures :
         /\ f.class = "APIError"
         /\ genOut' = f
    /\ invoked' = invoked + 1
    /\ Backoff
    /\ NextAttempt
    /\ UNCHANGED <<messages, truncs, genCalls, buildVars, runVars>>

\* Mutant of AttemptFatal: the exception is handled like an APIError (sleep,
\* double the delay, next attempt).
AttemptFatal_Retried ==
    /\ pc = "gen"
    /\ \E f \in GenFailures :
         /\ f.class = "Exception"
         /\ genOut' = f
    /\ invoked' = invoked + 1
    /\ Backoff
    /\ NextAttempt
    /\ UNCHANGED <<messages, truncs, genCalls, buildVars, runVars>>

\* except Exception: raise.  run_loo does not catch it.
AttemptFatal ==
    /\ pc = "gen"
    /\ \E f \in GenFailures :
         /\ f.class = "Exception"
         /\ genOut' = f
    /\ invoked' = invoked + 1
    /\ pc' = "failed"
    /\ error' = "Exception"
    /\ UNCHANGED <<messages, attempt, delay, truncs, slept, genCalls, buildVars, runVars>>

\* ------------------------------------------------------------------ run_loo
\* if not sources: raise ValueError("No sources available.")
RejectEmpty ==
    /\ pc = "returned"
    /\ NoSources(sources)
    /\ pc' = "failed"
    /\ error' = "ValueError"
    /\ UNCHANGED <<buildVars, callVars, runVars>>

\* full_messages = build_prompt(query, sources); call_gpt4o(full_messages)
StartFull ==
    /\ pc = "returned"
    /\ ~NoSources(sources)
    /\ phase' = "full"
    /\ subset' = sources
    /\ EnterCall(build_prompt(query, sources))
    /\ UNCHANGED <<i, full_answer, ans_lo, contexts, scoreCalls, scorerOuts, full_quality,
                   full_metrics, quality_lo, impacts, result, buildVars>>

\* The report of a completed run.
LOOResult(fa, fq, fm, imp, srcs) ==
    [returned |-> TRUE, full_answer |-> fa, full_quality |-> fq, metric_breakdown |-> fm,
     per_source_impact |-> imp, sources_meta |-> SourcesMeta(srcs),
     per_source_metrics |-> <<>>]

\* Mutant of Iteration: the iteration sends the prompt object of the previous
\* call instead of building its own.
Iteration_ReusesPrompt(j, fq, fm, imp) ==
    IF j < Len(sources)
      THEN /\ i' = j
           /\ subset' = Subset(sources, j)
           /\ EnterCall(messages)
           /\ result' = result
      ELSE /\ pc' = "done"
           /\ result' = LOOResult(full_answer, fq, fm, imp, sources)
           /\ UNCHANGED <<i, subset, error, callVars>>

\* Top of the ablation loop for index j: the j-th iteration up to its
\* call_gpt4o, or, the loop being over, return LOOResult(...).
Iteration(j, fq, fm, imp) ==
    IF j < Len(sources)
      THEN /\ i' = j
           /\ subset' = Subset(sources, j)
           /\ EnterCall(build_prompt(query, Subset(sources, j)))
           /\ result' = result
      ELSE /\ pc' = "done"
           /\ result' = LOOResult(full_answer, fq, fm, imp, sources)
           /\ UNCHANGED <<i, subset, error, callVars>>

\* The scorer answers the full-context evaluation: full_quality, full_metrics;
\* impacts = []; the ablation loop starts.
EvaluateFull ==
    /\ pc = "eval"
    /\ phase = "full"
    /\ \E row \in ScorerRows :
         /\ scorerOuts' = Append(scorerOuts, row)
         /\ full_quality' = compute_quality(row)
         /\ full_metrics' = row
         /\ Iteration(0, compute_quality(row), row, <<>>)
    /\ scoreCalls' = scoreCalls + 1
    /\ phase' = "loo"
    /\ impacts' = <<>>
    /\ UNCHANGED <<full_answer, ans_lo, contexts, quality_lo, buildVars>>

\* The scorer answers an ablation evaluation: impacts.append(full_quality -
\* quality_lo), then the next iteration or the report.
EvaluateAblation ==
    /\ pc = "eval"
    /\ phase = "loo"
    /\ \E row \in ScorerRows :
         /\ scorerOuts' = Append(scorerOuts, row)
         /\ quality_lo' = compute_quality(row)
         /\ impacts' = Append(impacts, full_quality - compute_quality(row))
         /\ Iteration(i + 1, full_quality, full_metrics,
                      Append(impacts, full_quality - compute_quality(row)))
    /\ scoreCalls' = scoreCalls + 1
    /\ UNCHANGED <<phase, full_answer, ans_lo, contexts, full_quality, full_metrics,
                   buildVars>>

\* Mutant of EvaluateFails: the evaluation is tried again after the scorer's
\* exception.
EvaluateFails_Retries ==
    /\ pc = "eval"
    /\ scoreCalls' = scoreCalls + 1
    /\ pc' = "eval"
    /\ UNCHANGED <<phase, i, subset, full_answer, ans_lo, contexts, scorerOuts,
                   full_quality, full_metrics, quality_lo, impacts, result>>
    /\ UNCHANGED <<error, buildVars, callVars>>

\* Mutant of EvaluateFails: the scorer's exception is caught and the impacts
\* computed so far are returned as the report.
EvaluateFails_PartialReport ==
    /\ pc = "eval"
    /\ scoreCalls' = scoreCalls + 1
    /\ pc' = "done"
    /\ result' = LOOResult(full_answer, full_quality, full_metrics, impacts, sources)
    /\ UNCHANGED <<phase, i, subset, full_answer, ans_lo, contexts, scorerOuts,
                   full_quality, full_metrics, quality_lo, impacts>>
    /\ UNCHANGED <<error, buildVars, callVars>>

\* The scorer raises: compute_quality and run_loo let it propagate.
EvaluateFails ==
    /\ pc = "eval"
    /\ scoreCalls' = scoreCalls + 1
    /\ pc' = "failed"
    /\ error' = "EvaluationError"
    /\ UNCHANGED <<phase, i, subset, full_answer, ans_lo, contexts, scorerOuts,
                   full_quality, full_metrics, quality_lo, impacts, result>>
    /\ UNCHANGED <<buildVars, callVars>>

\* ------------------------------------------------------- the outside world
\* The outcome of one scorer invocation: a row, or an exception.
ScorerRaised == [raised |-> TRUE, row |-> NoRow]
ScorerReturned(row) == [raised |-> FALSE, row |-> row]
NoFirst == [ended |-> FALSE]

\* Providers and scorer answer as they like, and nothing is recorded.
FreeWorld == UNCHANGED worldVars

\* The answer given to a request is the one given to the same request before;
\* the answer is recorded.
Memoised(memo, request, answer) ==
    /\ request \in DOMAIN memo => memo[request] = answer
    /\ memo' = Put(memo, request, answer)

\* Deterministic providers and scorer (temperature 0, a fixed corpus): in this
\* step an invocation of the content provider (a new entry of exaCalls), of
\* the generation provider (invoked goes up) or of the scorer (scoreCalls goes
\* up) is answered as the same request was answered before.
SameWorld ==
    /\ IF Len(exaCalls') = Len(exaCalls) + 1
         THEN LET c == exaCalls'[Len(exaCalls')]
              IN  Memoised(exaMemo, c.url, c.ok)
         ELSE exaMemo' = exaMemo
    /\ IF invoked' = invoked + 1
         THEN Memoised(genMemo, messages, genOut')
         ELSE genMemo' = genMemo
    /\ IF scoreCalls' = scoreCalls + 1
         THEN Memoised(scoreMemo,
                       <<IF phase = "full" THEN full_answer ELSE ans_lo, contexts>>,
                       IF Len(scorerOuts') = Len(scorerOuts) + 1
                         THEN ScorerReturned(scorerOuts'[Len(scorerOuts')])
                         ELSE ScorerRaised)
         ELSE scoreMemo' = scoreMemo
    /\ UNCHANGED <<run, first>>

\* ----------------------------------------------------------- specifications
BuildNext ==
    \/ LoadCache /\ FreeWorld
    \/ ResolveOverride /\ FreeWorld
    \/ ResolveCached /\ FreeWorld
    \/ ResolveFetched /\ FreeWorld
    \/ ResolveSkipped /\ FreeWorld
    \/ ResolveNoKey /\ FreeWorld

Next ==
    \/ LoadCache /\ FreeWorld
    \/ ResolveOverride /\ FreeWorld
    \/ ResolveCached /\ FreeWorld
    \/ ResolveFetched /\ FreeWorld
    \/ ResolveSkipped /\ FreeWorld
    \/ ResolveNoKey /\ FreeWorld
    \/ RejectEmpty /\ FreeWorld
    \/ StartFull /\ FreeWorld
    \/ AttemptSuccess /\ FreeWorld
    \/ AttemptTruncate /\ FreeWorld
    \/ AttemptRateLimited /\ FreeWorld
    \/ AttemptAPIError /\ FreeWorld
    \/ AttemptFatal /\ FreeWorld
    \/ EvaluateFull /\ FreeWorld
    \/ EvaluateAblation /\ FreeWorld
    \/ EvaluateFails /\ FreeWorld

\* The state before run_loo / build_sources starts, the inputs left open.
Start ==
    /\ pc = "load"
    /\ error = "none"
    /\ cache = EmptyDict
    /\ updated = FALSE
    /\ k = 0
    /\ sources = <<>>
    /\ origins = <<>>
    /\ exaCalls = <<>>
    /\ diskReads = 0
    /\ diskWrites = 0
    /\ saveFailed = FALSE
    /\ phase = "none"
    /\ i = 0
    /\ subset = <<>>
    /\ messages = <<>>
    /\ attempt = 0
    /\ delay = initial_delay
    /\ invoked = 0
    /\ truncs = 0
    /\ slept = <<>>
    /\ genOut = NoOutcome
    /\ genCalls = 0
    /\ full_answer = NoAnswer
    /\ ans_lo = NoAnswer
    /\ contexts = <<>>
    /\ scoreCalls = 0
    /\ scorerOuts = <<>>
    /\ full_quality = 0
    /\ full_metrics = NoRow
    /\ quality_lo = 0
    /\ impacts = <<>>
    /\ result = NoResult

\* The first call of run_loo, nothing known about the outside world.
FirstRun ==
    /\ run = 1
    /\ first = NoFirst
    /\ exaMemo = EmptyDict
    /\ genMemo = EmptyDict
    /\ scoreMemo = EmptyDict

\* A call of build_sources on its own, over all shapes of overrides and store.
BuildInit ==
    /\ urls \in SeqsUpTo(URLS, MaxUrls)
    /\ exa_mocks \in MockDicts
    /\ disk \in DiskStates
    /\ environ \in {Credentials, Credentials \ {"EXA_API_KEY"}}
    /\ Start
    /\ FirstRun

SpecBuild == BuildInit /\ [][BuildNext]_vars

\* A run of run_loo: u1 may have an override (it is fetched otherwise), the
\* store holds u2; any of the credentials may be missing.
RunMocks == { EmptyDict, [u \in {"u1"} |-> MockFull(u)] }
RunDisks == { save_cache([u \in {"u2"} |-> EntryFull(u)]) }

Init ==
    /\ urls \in SeqsUpTo(URLS, MaxUrls)
    /\ exa_mocks \in RunMocks
    /\ disk \in RunDisks
    /\ environ \in SUBSET Credentials
    /\ Start
    /\ FirstRun

Spec == Init /\ [][Next]_vars

\* run_loo, having returned its report, is called a second time with the same
\* arguments, in the same environment and on the store the first call left:
\* every variable of the run starts again as in Start.
SecondRun ==
    /\ run = 1
    /\ pc = "done"
    /\ run' = 2
    /\ first' = [ended |-> TRUE, result |-> result, error |-> error, exaCalls |-> exaCalls]
    /\ pc' = "load"
    /\ error' = "none"
    /\ cache' = EmptyDict
    /\ updated' = FALSE
    /\ k' = 0
    /\ sources' = <<>>
    /\ origins' = <<>>
    /\ exaCalls' = <<>>
    /\ diskReads' = 0
    /\ diskWrites' = 0
    /\ saveFailed' = FALSE
    /\ phase' = "none"
    /\ i' = 0
    /\ subset' = <<>>
    /\ messages' = <<>>
    /\ attempt' = 0
    /\ delay' = initial_delay
    /\ invoked' = 0
    /\ truncs' = 0
    /\ slept' = <<>>
    /\ genOut' = NoOutcome
    /\ genCalls' = 0
    /\ full_answer' = NoAnswer
    /\ ans_lo' = NoAnswer
    /\ contexts' = <<>>
    /\ scoreCalls' = 0
    /\ scorerOuts' = <<>>
    /\ full_quality' = 0
    /\ full_metrics' = NoRow
    /\ quality_lo' = 0
    /\ impacts' = <<>>
    /\ result' = NoResult
    /\ UNCHANGED <<urls, exa_mocks, environ, disk, exaMemo, genMemo, scoreMemo>>

\* Two calls of run_loo in a row, with deterministic providers and scorer.
TwoRunsNext ==
    \/ LoadCache /\ SameWorld
    \/ ResolveOverride /\ SameWorld
    \/ ResolveCached /\ SameWorld
    \/ ResolveFetched /\ SameWorld
    \/ ResolveSkipped /\ SameWorld
    \/ ResolveNoKey /\ SameWorld
    \/ RejectEmpty /\ SameWorld
    \/ StartFull /\ SameWorld
    \/ AttemptSuccess /\ SameWorld
    \/ AttemptTruncate /\ SameWorld
    \/ AttemptRateLimited /\ SameWorld
    \/ AttemptAPIError /\ SameWorld
    \/ AttemptFatal /\ SameWorld
    \/ EvaluateFull /\ SameWorld
    \/ EvaluateAblation /\ SameWorld
    \/ EvaluateFails /\ SameWorld
    \/ SecondRun

\* Lists of URLs without a repeated URL.
DistinctUrls == { s \in SeqsUpTo(URLS, MaxUrls) :
                    \A a, b \in DOMAIN s : a # b => s[a] # s[b] }

\* The URLs are distinct and the store is absent at first.  Either every URL
\* is fetched, or u1 has an override and, EXA_API_KEY not being set, u2 cannot
\* be fetched.
TwoRunsInit ==
    /\ urls \in DistinctUrls
    /\ \/ exa_mocks = EmptyDict /\ environ = Credentials
       \/ /\ exa_mocks = [u \in {"u1"} |-> MockFull(u)]
          /\ environ = Credentials \ {"EXA_API_KEY"}
    /\ disk = [state |-> "absent", data |-> <<>>]
    /\ Start
    /\ FirstRun

SpecTwoRuns == TwoRunsInit /\ [][TwoRunsNext]_vars

\* ================================================================== claims
\* Helpers of the statements below (written out, not taken from the model).
Range(f) == {f[x] : x \in DOMAIN f}

\* s without its element of 0-based index j, the order kept.
WithoutIndex(s, j) ==
    [x \in 1..(Len(s) - 1) |-> IF x <= j THEN s[x] ELSE s[x + 1]]

\* The first half of a text, n times over.
RECURSIVE HalveTimes(_, _)
HalveTimes(text, n) ==
    IF n = 0 THEN text ELSE HalveTimes(SubSeq(text, 1, Len(text) \div 2), n - 1)

Mean2(row) == (row.faithfulness + row.answer_relevancy) \div 2

MetaOf(d) == [id |-> d.id, title |-> d.title, url |-> d.url]

\* ---- C1 ------------------------------------------------------------------
\* C1: whenever run_loo returns a report, per_source_impact and sources_meta
\* both have one entry per resolved document, sources_meta[j] is the metadata
\* of the j-th resolved document, and while the j-th impact is being computed
\* (iteration i = j, impacts holding the j earlier ones) the subset in use is
\* the resolved documents without exactly that j-th document.
IndexAlignment ==
    /\ Len(sources) = Len(origins)
    /\ (phase = "loo" /\ pc \in {"gen", "eval"}) =>
          /\ Len(impacts) = i
          /\ i < Len(sources)
          /\ subset = WithoutIndex(sources, i)
    /\ pc = "done" =>
          /\ result.returned
          /\ Len(result.per_source_impact) = Len(sources)
          /\ Len(result.sources_meta) = Len(sources)
          /\ result.per_source_impact = impacts
          /\ \A j \in 1..Len(sources) : result.sources_meta[j] = MetaOf(sources[j])

\* A report over two different documents.
IndexAlignmentWitness ==
    /\ pc = "done"
    /\ Len(sources) = 2
    /\ sources[1] # sources[2]
    /\ Len(result.per_source_impact) = 2

AttemptBudget ==
    /\ invoked <= 3
    /\ Len(slept) + truncs <= 3
    /\ (invoked = 3 /\ genOut.class \in {"RateLimitError", "APIError"}) =>
          /\ Len(slept) + truncs = 3
          /\ pc = "failed"
          /\ error = "RuntimeError"
          /\ result = NoResult

\* A call that used its three attempts on a truncation and two backoffs.
AttemptBudgetWitness ==
    /\ pc = "failed"
    /\ error = "RuntimeError"
    /\ invoked = 3
    /\ truncs = 1
    /\ Len(slept) = 2

\* ---- C4 ------------------------------------------------------------------
\* In the current call (its client built) the provider has rejected every
\* request so far as oversized (a rate-limit failure with the size wording),
\* tr times.
OnlyOversizedSoFar(tr) ==
    /\ genCalls > 0
    /\ error # "KeyError"
    /\ invoked = tr
    /\ truncs = tr
    /\ slept = <<>>

\* The call has returned the answer the provider gave on the attempt after tr
\* oversized rejections, within the attempt budget.
AcceptedAfter(tr) ==
    /\ genCalls > 0
    /\ genOut = Answered
    /\ truncs = tr
    /\ slept = <<>>

\* After tr oversized rejections the generator makes the next attempt, with the
\* evidence halved tr times; and an answer accepted after tr truncations is
\* what the call returns, the provider invoked tr + 1 <= 3 times.
ConvergesAfter(tr) ==
    /\ OnlyOversizedSoFar(tr) =>
          /\ pc = "gen"
          /\ attempt = tr
          /\ messages[2].content =
                HalveTimes(build_prompt(query, subset)[2].content, tr)
    /\ AcceptedAfter(tr) =>
          /\ pc \in {"eval", "done", "failed"}
          /\ pc = "failed" => error = "EvaluationError"
          /\ invoked = tr + 1
          /\ invoked <= 3
          /\ (IF phase = "full" THEN full_answer ELSE ans_lo) = Completion(messages)

\* C4 as amended: truncation convergence for k = 0, 1, 2 oversized rejections
\* (k below the attempt budget of 3).
TruncationConvergenceInBudget == \A tr \in 0..2 : ConvergesAfter(tr)

\* C4 as stated: truncation convergence for every k >= 0 (checked up to 4).
TruncationConvergence == \A tr \in 0..4 : ConvergesAfter(tr)

\* An answer accepted on the third attempt, after two truncations.
TruncationConvergenceWitness ==
    /\ pc = "eval"
    /\ AcceptedAfter(2)
    /\ invoked = 3

\* ---- C5 ------------------------------------------------------------------
\* C5: once a call of call_gpt4o has returned or failed, the prompt object the
\* caller passed holds what the caller built, build_prompt(query, subset).
PromptNotLeaked ==
    (genCalls > 0 /\ pc \in {"eval", "done", "failed"}) =>
        messages = build_prompt(query, subset)

\* ---- C10 -----------------------------------------------------------------
\* C10: a provider failure that is neither a RateLimitError nor an APIError
\* ends the call and the run at once with that exception: no sleep, no
\* truncation, no further attempt (no step follows the failure).
FatalPropagates ==
    [][ /\ pc # "failed"
        /\ (genOut'.class = "Exception" /\ invoked' = invoked + 1) =>
              /\ pc' = "failed"
              /\ error' = "Exception"
              /\ slept' = slept
              /\ delay' = delay
              /\ attempt' = attempt
              /\ messages' = messages
              /\ result' = NoResult ]_vars

\* A fatal failure on the first attempt of a call, two attempts left.
FatalPropagatesWitness ==
    /\ pc = "failed"
    /\ error = "Exception"
    /\ genOut.class = "Exception"
    /\ invoked = 1
    /\ attempt = 0

\* ---- C6 ------------------------------------------------------------------
\* The dict of document fields an override holds: the first result of a
\* non-empty provider envelope, the override itself otherwise.
OverrideFields(m) ==
    IF "results" \in DOMAIN m /\ Len(m["results"]) > 0 THEN m["results"][1] ELSE m

\* C6: every processed URL occurrence that has an override yields a document,
\* each field the override gives is the document's field (also when the
\* repository holds an entry for the URL), and the provider is never invoked
\* for a URL that has an override.
OverridePrecedence ==
    /\ \A n \in 1..k :
          urls[n] \in DOMAIN exa_mocks => n \in Range(origins)
    /\ \A j \in 1..Len(sources) :
          LET u == urls[origins[j]]
          IN  u \in DOMAIN exa_mocks =>
                \A f \in DOMAIN OverrideFields(exa_mocks[u]) \cap {"id", "title", "url", "text"} :
                    sources[j][f] = OverrideFields(exa_mocks[u])[f]
    /\ \A c \in 1..Len(exaCalls) : exaCalls[c].url \notin DOMAIN exa_mocks

\* A URL with a complete override and a repository entry has been resolved.
OverridePrecedenceWitness ==
    /\ pc = "returned"
    /\ \E j \in 1..Len(sources) :
          LET u == urls[origins[j]]
          IN  /\ u \in DOMAIN exa_mocks
              /\ u \in DOMAIN cache
              /\ DOMAIN OverrideFields(exa_mocks[u]) = {"id", "title", "url", "text"}
              /\ sources[j].id # cache[u]["id"]

\* ---- C7 ------------------------------------------------------------------
\* C7: build_sources never ends with an error (the only failure before the
\* first generation is run_loo's ValueError) and processes every URL; the
\* documents are, in input order, one per URL occurrence that was not skipped;
\* an occurrence is skipped only by a failed fetch for its URL (a failed
\* provider invocation or, EXA_API_KEY not being set, none at all), and every
\* failed invocation skips exactly one occurrence.
ResolutionSkip ==
    /\ (pc = "failed" /\ genCalls = 0) => (error = "ValueError" /\ k = Len(urls))
    /\ pc \notin {"load", "loop", "failed"} => k = Len(urls)
    /\ Len(origins) = Len(sources)
    /\ \A j \in 1..Len(origins) : origins[j] \in 1..k
    /\ \A j \in 1..(Len(origins) - 1) : origins[j] < origins[j + 1]
    /\ \A j \in 1..Len(sources) :
          LET u == urls[origins[j]]
          IN  \/ u \in DOMAIN exa_mocks
              \/ /\ u \in DOMAIN cache
                 /\ sources[j].id = IF "id" \in DOMAIN cache[u] THEN cache[u]["id"] ELSE u
    /\ \A n \in (1..k) \ Range(origins) :
          /\ urls[n] \notin DOMAIN exa_mocks
          /\ \/ "EXA_API_KEY" \notin environ
             \/ \E c \in 1..Len(exaCalls) : exaCalls[c] = [url |-> urls[n], ok |-> FALSE]
    /\ "EXA_API_KEY" \in environ =>
          Cardinality({c \in 1..Len(exaCalls) : ~exaCalls[c].ok}) = k - Len(sources)
    /\ "EXA_API_KEY" \notin environ => exaCalls = <<>>

\* The first of two URLs was skipped after a failed provider invocation, the
\* second resolved.
ResolutionSkipWitness ==
    /\ pc = "returned"
    /\ Len(urls) = 2
    /\ origins = <<2>>
    /\ Len(sources) = 1
    /\ exaCalls[1].ok = FALSE

\* ---- C8 ------------------------------------------------------------------
\* No URL occurrence processed so far resolved to a document.
NoDocs == sources = <<>> /\ origins = <<>>

\* C8: with no document resolved, run_loo goes from the return of
\* build_sources to ValueError only, and neither call_gpt4o, the generation
\* provider nor the scorer has been called.
NoDocumentsError ==
    /\ (NoDocs /\ pc \notin {"load", "loop", "returned"}) =>
          (pc = "failed" /\ error = "ValueError")
    /\ NoDocs => (genCalls = 0 /\ invoked = 0 /\ scoreCalls = 0 /\ result = NoResult)
    /\ error = "ValueError" => NoDocs

\* Two URLs, both failed to resolve: the run ended with ValueError.
NoDocumentsErrorWitness ==
    /\ pc = "failed"
    /\ error = "ValueError"
    /\ Len(urls) = 2
    /\ Len(exaCalls) = 2

\* ---- C9 ------------------------------------------------------------------
\* C9: a report exists exactly when the run is done, and then the full run and
\* all n ablation iterations were generated and scored; a failed run carries an
\* error and no report, whatever impacts it had computed.
AllOrNothing ==
    /\ (result # NoResult) <=> (pc = "done")
    /\ (pc = "failed") <=> (error # "none")
    /\ pc = "failed" => result = NoResult
    /\ pc = "done" =>
          /\ genCalls = Len(sources) + 1
          /\ scoreCalls = Len(sources) + 1
          /\ Len(scorerOuts) = Len(sources) + 1
          /\ Len(result.per_source_impact) = Len(sources)
          /\ Len(sources) > 0

\* A run that failed after it had computed an impact.
AllOrNothingWitness ==
    /\ pc = "failed"
    /\ Len(impacts) = 1
    /\ Len(sources) = 2
    /\ result = NoResult

\* ---- C11 -----------------------------------------------------------------
\* C11: with deterministic providers and scorer, a second call of run_loo with
\* the same question, URLs and overrides, on the store the first call left
\* (populated by it, or not when its write failed), arrives at the same
\* full_answer and, one after the other, the same impacts, and returns the
\* same report.
Determinism ==
    run = 2 =>
        /\ ((phase = "full" /\ pc = "eval") \/ phase = "loo") =>
              full_answer = first.result.full_answer
        /\ phase = "loo" =>
              /\ Len(impacts) <= Len(first.result.per_source_impact)
              /\ \A j \in 1..Len(impacts) : impacts[j] = first.result.per_source_impact[j]
        /\ pc # "failed"
        /\ pc = "done" => result = first.result

\* The first call fetched two documents and populated the store, the second
\* call was served from the store without a provider invocation.
DeterminismWitness ==
    /\ run = 2
    /\ pc = "done"
    /\ Len(first.exaCalls) = 2
    /\ exaCalls = <<>>
    /\ disk.state = "ok"
    /\ Len(result.per_source_impact) = 2

\* ---- C12 -----------------------------------------------------------------
\* C12: with exactly one resolved document, once the single ablation iteration
\* has put its evaluation (over no contexts) to the scorer, the run has not
\* failed: it is done, its report holding exactly one impact.
SingleDocumentNeverFails ==
    (Len(sources) = 1 /\ phase = "loo" /\ scoreCalls = 2) =>
        /\ pc = "done"
        /\ Len(result.per_source_impact) = 1

\* What run_loo does with exactly one resolved document: there is exactly one
\* ablation iteration (index 0, the second call_gpt4o call and the second
\* evaluation of the run); its prompt is built from the empty subset and its
\* evaluation is made against the empty contexts list; if the scorer returns a
\* row for it the run is done with exactly one impact, full quality minus that
\* row's mean; if the scorer raises, the run fails with the scorer's exception.
SingleDocument ==
    (Len(sources) = 1 /\ phase = "loo") =>
        /\ i = 0
        /\ subset = <<>>
        /\ genCalls = 2
        /\ messages[1] = build_prompt(query, <<>>)[1]
        /\ messages[2].content = HalveTimes(build_prompt(query, <<>>)[2].content, truncs)
        /\ (pc \in {"eval", "done"} \/ scoreCalls = 2) => contexts = <<>>
        /\ pc = "done" => scoreCalls = 2
        /\ (scoreCalls = 2 /\ Len(scorerOuts) = 2) =>
              /\ pc = "done"
              /\ result.per_source_impact = <<Mean2(scorerOuts[1]) - Mean2(scorerOuts[2])>>
        /\ (scoreCalls = 2 /\ Len(scorerOuts) < 2) =>
              (pc = "failed" /\ error = "EvaluationError")

\* A report over one document: one impact, computed from an evaluation over no
\* contexts.
SingleDocumentWitness ==
    /\ pc = "done"
    /\ Len(sources) = 1
    /\ contexts = <<>>
    /\ subset = <<>>
    /\ Len(result.per_source_impact) = 1

\* ---- C13 -----------------------------------------------------------------
\* C13: build_sources calls load_cache once, before it processes any URL, and
\* save_cache at most once, after the last URL; save_cache has been called at
\* the return exactly when the provider resolved at least one URL in the batch.
StoreAccess ==
    /\ diskReads = (IF pc = "load" THEN 0 ELSE 1)
    /\ pc = "load" => (k = 0 /\ sources = <<>> /\ exaCalls = <<>>)
    /\ diskWrites <= 1
    /\ pc \in {"load", "loop"} => diskWrites = 0
    /\ diskWrites = 1 => k = Len(urls)
    /\ pc \notin {"load", "loop"} =>
          (diskWrites = 1 <=> \E c \in 1..Len(exaCalls) : exaCalls[c].ok)

\* Two URLs newly resolved by the provider, one write.
StoreAccessWitness ==
    /\ pc = "returned"
    /\ Len(exaCalls) = 2
    /\ exaCalls[1].ok /\ exaCalls[2].ok
    /\ diskWrites = 1
    /\ diskReads = 1

\* ---- C14 -----------------------------------------------------------------
\* A URL occurrence had to be fetched while EXA_API_KEY is not set.
LacksExaKey ==
    /\ "EXA_API_KEY" \notin environ
    /\ \E n \in 1..k : n \notin Range(origins)

\* C14: a run that lacks a credential it needs ends with a configuration
\* error (KeyError) before any provider, generator or scorer invocation: a
\* fetch without EXA_API_KEY is not a skipped URL but the end of the run, and
\* without OPENAI_API_KEY no content provider invocation is made.
ConfigurationErrorFirst ==
    /\ LacksExaKey =>
          /\ pc = "failed"
          /\ error = "KeyError"
          /\ invoked = 0
          /\ scoreCalls = 0
    /\ "OPENAI_API_KEY" \notin environ =>
          /\ exaCalls = <<>>
          /\ invoked = 0
          /\ scoreCalls = 0
          /\ (pc = "failed" /\ genCalls > 0) => error = "KeyError"

\* ---- C15 -----------------------------------------------------------------
\* The provider resolved URL u in this batch.
Fetched(u) == \E c \in 1..Len(exaCalls) : exaCalls[c] = [url |-> u, ok |-> TRUE]

\* C15: once build_sources has written the store, load_cache of that store
\* and the cache-hit construction of the document give, for every URL the
\* provider resolved in the batch, a document equal in id, title, url and text
\* to the one build_sources returned for it.
CacheRoundTrip ==
    (pc = "returned" /\ diskWrites = 1 /\ ~saveFailed) =>
        LET stored == load_cache(disk)
        IN  \A j \in 1..Len(sources) :
              LET u == urls[origins[j]]
              IN  (u \notin DOMAIN exa_mocks /\ Fetched(u)) =>
                    /\ u \in DOMAIN stored
                    /\ SourceFromDict(stored[u], u).id = sources[j].id
                    /\ SourceFromDict(stored[u], u).title = sources[j].title
                    /\ SourceFromDict(stored[u], u).url = sources[j].url
                    /\ SourceFromDict(stored[u], u).text = sources[j].text

\* The store was written with a document whose text is empty (the provider
\* gave none) and one whose text is not.
CacheRoundTripWitness ==
    /\ pc = "returned"
    /\ diskWrites = 1
    /\ ~saveFailed
    /\ Len(sources) = 2
    /\ Fetched("u1") /\ Fetched("u2")
    /\ \E j \in 1..2 : sources[j].text = <<>> /\ sources[j].title = "(untitled)"
    /\ \E j \in 1..2 : sources[j].text # <<>>

\* ---- C16 -----------------------------------------------------------------
\* C16: build_sources never ends with an error; with the store absent or
\* unreadable the cache starts out empty (it holds only what the provider
\* resolved in this batch); and when the write of save_cache fails,
\* build_sources has returned all the same, every URL processed and every
\* document the provider resolved among the documents returned.
StoreFailuresTolerated ==
    /\ pc # "failed"
    /\ error = "none"
    /\ (pc # "load" /\ diskWrites = 0 /\ disk.state # "ok") =>
          \A u \in DOMAIN cache : Fetched(u)
    /\ saveFailed =>
          /\ pc = "returned"
          /\ k = Len(urls)
          /\ \A c \in 1..Len(exaCalls) :
                exaCalls[c].ok =>
                   \E j \in 1..Len(sources) :
                      /\ urls[origins[j]] = exaCalls[c].url
                      /\ sources[j].id = ExaResult(exaCalls[c].url)["id"]

\* An unreadable store was loaded as the empty mapping, two URLs were fetched,
\* the write failed and left the store as it was: both documents are returned.
StoreFailuresToleratedWitness ==
    /\ pc = "returned"
    /\ saveFailed
    /\ disk.state = "corrupt"
    /\ DOMAIN cache = {"u1", "u2"}
    /\ Len(sources) = 2

\* ---- C17 -----------------------------------------------------------------
RECURSIVE Pow2(_)
Pow2(n) == IF n = 0 THEN 1 ELSE 2 * Pow2(n - 1)

\* C17: the j-th backoff sleep of a call lasts 10 * 2^(j-1) seconds (10, 20,
\* 40); the delay is 10 doubled once per backoff so far, a truncation retry
\* leaving it alone; every failed attempt was a backoff or a truncation; and a
\* call starts with attempt 0 and delay 10 whatever earlier calls did.
BackoffSchedule ==
    /\ \A j \in 1..Len(slept) : slept[j] = 10 * Pow2(j - 1)
    /\ delay = 10 * Pow2(Len(slept))
    /\ pc = "gen" => attempt = Len(slept) + truncs
    /\ (pc = "gen" /\ invoked = 0) => (attempt = 0 /\ delay = 10 /\ slept = <<>>)

\* The second call of a run slept 10 and then 20 seconds, with a truncation
\* retry in between.
BackoffScheduleWitness ==
    /\ genCalls = 2
    /\ slept = <<10, 20>>
    /\ truncs = 1
    /\ delay = 40
    /\ genOut.class = "APIError"

\* ---- C18 -----------------------------------------------------------------
\* The length a text of length n has after t halvings.
RECURSIVE HalvedLen(_, _)
HalvedLen(n, t) == IF t = 0 THEN n ELSE HalvedLen(n \div 2, t - 1)

\* C18: a truncation step cuts the user message to its first floor(len / 2)
\* tokens, leaves the system message as it is, does not sleep, leaves the
\* delay alone and uses up one attempt; and before every attempt the user
\* content has the length of the built prompt halved once per truncation.
TruncationStep ==
    [][ /\ truncs' = truncs + 1 =>
              /\ Len(messages') = 2
              /\ messages'[1] = messages[1]
              /\ messages'[2].role = "user"
              /\ messages'[2].content =
                    SubSeq(messages[2].content, 1, Len(messages[2].content) \div 2)
              /\ slept' = slept
              /\ delay' = delay
              /\ attempt' = attempt + 1
              /\ invoked' = invoked + 1
        /\ pc' = "gen" =>
              Len(messages'[2].content) =
                 HalvedLen(Len(build_prompt(query, subset')[2].content), truncs') ]_vars

\* Two truncations in a row: no sleep, the delay still 10, two attempts used.
TruncationStepWitness ==
    /\ pc = "gen"
    /\ truncs = 2
    /\ attempt = 2
    /\ slept = <<>>
    /\ delay = 10
    /\ Len(subset) = 2
    /\ Len(messages[2].content) = Len(build_prompt(query, subset)[2].content) \div 4

\* ---- C19 -----------------------------------------------------------------
\* C19: every provider failure whose message carries the size wording is
\* answered by a truncation retry (no sleep, the call not ended by it),
\* whatever the class of the exception.
OversizedByContent ==
    [][ (invoked' = invoked + 1 /\ genOut'.oversized) =>
            /\ truncs' = truncs + 1
            /\ messages' = Truncate(messages)
            /\ slept' = slept
            /\ error' # "Exception" ]_vars

\* ---- C20 -----------------------------------------------------------------
\* C20: no call_gpt4o call before build_sources has processed every URL; the
\* calls alternate, each call_gpt4o call followed by its evaluation before the
\* next call; the full run is call and evaluation number 1, ablation iteration
\* i is call and evaluation number i + 2, in index order; a run that is done
\* made n + 1 calls and n + 1 evaluations; and the scorer is invoked once per
\* evaluation, its exception ending the run.
CallOrdering ==
    /\ genCalls > 0 => (pc \notin {"load", "loop", "returned"} /\ k = Len(urls))
    /\ scoreCalls <= genCalls
    /\ genCalls <= scoreCalls + 1
    /\ pc \in {"gen", "eval"} => genCalls = scoreCalls + 1
    /\ phase = "full" => genCalls = 1
    /\ (phase = "loo" /\ pc \in {"gen", "eval"}) =>
          /\ genCalls = i + 2
          /\ scoreCalls = i + 1
          /\ Len(impacts) = i
    /\ pc = "done" =>
          /\ genCalls = Len(sources) + 1
          /\ scoreCalls = Len(sources) + 1
    /\ Len(scorerOuts) <= scoreCalls
    /\ scoreCalls <= Len(scorerOuts) + 1
    /\ scoreCalls = Len(scorerOuts) + 1 => (pc = "failed" /\ error = "EvaluationError")

\* A report over two documents: three generations, three evaluations.
CallOrderingWitness ==
    /\ pc = "done"
    /\ Len(sources) = 2
    /\ genCalls = 3
    /\ scoreCalls = 3
    /\ Len(scorerOuts) = 3

\* ---- C21 -----------------------------------------------------------------
\* C21: a pass of the loop body for a URL without an override that the mapping
\* holds appends the document of that entry and invokes no provider; the
\* provider is invoked only for a URL with neither an override nor an entry,
\* and a successful invocation puts the returned document's four fields into
\* the mapping under that URL; a store written at the return holds the mapping.
RepositoryPrecedence ==
    [][ /\ (pc = "loop" /\ urls[k + 1] \notin DOMAIN exa_mocks
                        /\ urls[k + 1] \in DOMAIN cache) =>
              /\ exaCalls' = exaCalls
              /\ cache' = cache
              /\ sources' = Append(sources, SourceFromDict(cache[urls[k + 1]], urls[k + 1]))
        /\ Len(exaCalls') = Len(exaCalls) + 1 =>
              LET c == exaCalls'[Len(exaCalls')]
              IN  /\ pc = "loop"
                  /\ c.url = urls[k + 1]
                  /\ c.url \notin DOMAIN exa_mocks
                  /\ c.url \notin DOMAIN cache
                  /\ c.ok =>
                        /\ Len(sources') = Len(sources) + 1
                        /\ c.url \in DOMAIN cache'
                        /\ cache'[c.url]["id"] = sources'[Len(sources')].id
                        /\ cache'[c.url]["title"] = sources'[Len(sources')].title
                        /\ cache'[c.url]["url"] = sources'[Len(sources')].url
                        /\ cache'[c.url]["text"] = sources'[Len(sources')].text
        /\ (diskWrites' = diskWrites + 1 /\ ~saveFailed') =>
              load_cache(disk') = cache' ]_vars

\* One URL was fetched and written to the mapping and the store, the other
\* was resolved from its repository entry.
RepositoryPrecedenceWitness ==
    /\ pc = "returned"
    /\ exa_mocks = EmptyDict
    /\ Len(sources) = 2
    /\ Len(exaCalls) = 1
    /\ exaCalls[1].ok
    /\ diskWrites = 1
    /\ ~saveFailed
    /\ DOMAIN load_cache(disk) = {"u1", "u2"}

\* ---- C22 -----------------------------------------------------------------
\* C22: every call of call_gpt4o starts from the prompt built from the
\* documents of its own run (all documents, or all but the i-th), whatever
\* truncations earlier calls made, and no step after build_sources changes a
\* document.
PromptIsolation ==
    [][ /\ genCalls' = genCalls + 1 =>
              /\ subset' = (IF phase' = "full" THEN sources ELSE WithoutIndex(sources, i'))
              /\ messages' = build_prompt(query, subset')
        /\ pc \notin {"load", "loop"} => sources' = sources ]_vars

\* The second call of a run starts from its full prompt although the first
\* call was answered on a prompt truncated twice.
PromptIsolationWitness ==
    /\ pc = "gen"
    /\ genCalls = 2
    /\ invoked = 0
    /\ Len(subset) = 1
    /\ messages = build_prompt(query, subset)
    /\ Len(full_answer.completion_of[2].content) =
          Len(build_prompt(query, sources)[2].content) \div 4

\* ---- C23 -----------------------------------------------------------------
\* The latest provider failure was one that call_gpt4o answers by backoff.
BackoffClassified ==
    \/ genOut.class = "APIError"
    \/ genOut.class = "RateLimitError" /\ ~genOut.oversized

\* C23: after every backoff-classified failure the call has slept for it (as
\* many sleeps and truncations as provider invocations), also when it was the
\* failure of the last attempt; a call that failed three times that way has
\* slept 10, 20 and 40 seconds and ended with RuntimeError.
SleepOnLastAttempt ==
    /\ BackoffClassified =>
          /\ Len(slept) >= 1
          /\ Len(slept) + truncs = invoked
    /\ (BackoffClassified /\ invoked = 3) =>
          /\ pc = "failed"
          /\ error = "RuntimeError"
          /\ delay = 10 * Pow2(Len(slept))
    /\ (BackoffClassified /\ invoked = 3 /\ truncs = 0) => slept = <<10, 20, 40>>

\* Three backoff failures: sleeps of 10, 20 and 40 seconds, then RuntimeError.
SleepOnLastAttemptWitness ==
    /\ pc = "failed"
    /\ error = "RuntimeError"
    /\ slept = <<10, 20, 40>>
    /\ delay = 80
    /\ invoked = 3

\* ---- C24 -----------------------------------------------------------------
\* C24: whenever an evaluation is about to be made, its contexts are the whole
\* texts of the documents of that run (all documents in the full run, all but
\* the i-th in iteration i), one per document and in their order, however
\* often the call that produced the answer truncated its prompt.
ContextsComplete ==
    pc = "eval" =>
        LET docs == IF phase = "full" THEN sources ELSE WithoutIndex(sources, i)
        IN  /\ Len(contexts) = Len(docs)
            /\ \A j \in 1..Len(docs) : contexts[j] = docs[j].text
            /\ Len(messages[2].content) =
                  HalvedLen(Len(build_prompt(query, docs)[2].content), truncs)

\* An evaluation over the whole texts of two documents, after an answer to a
\* prompt truncated twice.
ContextsCompleteWitness ==
    /\ pc = "eval"
    /\ phase = "full"
    /\ truncs = 2
    /\ Len(contexts) = 2
    /\ contexts[1] # <<>>
    /\ Len(messages[2].content) < Len(build_prompt(query, sources)[2].content)

\* ---- C25 -----------------------------------------------------------------
\* C25: the mapping starts as what load_cache gives; every pass of the loop
\* body keeps every entry of the mapping as it is; the mapping gains an entry
\* in a pass exactly when the provider was invoked in it and succeeded, and
\* then for that URL only: a pass for an overridden URL or a failed invocation
\* adds nothing.
RepositoryOnlyGrows ==
    [][ /\ pc = "load" => cache' = load_cache(disk)
        /\ pc = "loop" =>
              /\ \A u \in DOMAIN cache : u \in DOMAIN cache' /\ cache'[u] = cache[u]
              /\ DOMAIN cache' \ DOMAIN cache =
                    IF Len(exaCalls') = Len(exaCalls) + 1 /\ exaCalls'[Len(exaCalls')].ok
                      THEN {urls[k + 1]}
                      ELSE {}
              /\ urls[k + 1] \in DOMAIN exa_mocks => cache' = cache ]_vars

\* A batch of an overridden URL and a URL whose fetch failed: the mapping is
\* the one entry the store held, nothing is written.
RepositoryOnlyGrowsWitness ==
    /\ pc = "returned"
    /\ urls = <<"u1", "u2">>
    /\ "u1" \in DOMAIN exa_mocks
    /\ exaCalls = <<[url |-> "u2", ok |-> FALSE]>>
    /\ cache = [u \in {"u1"} |-> EntryFull(u)]
    /\ diskWrites = 0
    /\ load_cache(disk) = cache

\* ---- C26 -----------------------------------------------------------------
\* Number of provider invocations for URL u so far.
CallsFor(u) == Cardinality({c \in 1..Len(exaCalls) : exaCalls[c].url = u})

\* Number of processed occurrences of URL u.
Occurrences(u) == Cardinality({n \in 1..k : urls[n] = u})

\* Number of documents resolved for occurrences of URL u.
DocumentsFor(u) == Cardinality({j \in 1..Len(origins) : urls[origins[j]] = u})

\* C26: for a URL the provider was invoked for, at most one invocation
\* succeeded and it is the last one; until it succeeds the provider is invoked
\* for every occurrence, afterwards for none; every occurrence from the
\* successful one on has its own document; and a run that is done has one
\* impact per document.
DuplicateUrls ==
    /\ \A u \in URLS :
          CallsFor(u) > 0 =>
             /\ \A c \in 1..Len(exaCalls) :
                   (exaCalls[c].url = u /\ exaCalls[c].ok) =>
                      \A c2 \in (c + 1)..Len(exaCalls) : exaCalls[c2].url # u
             /\ CallsFor(u) <= Occurrences(u)
             /\ ~Fetched(u) => (CallsFor(u) = Occurrences(u) /\ DocumentsFor(u) = 0)
             /\ Fetched(u) => DocumentsFor(u) = Occurrences(u) - CallsFor(u) + 1
    /\ pc = "done" => Len(result.per_source_impact) = Len(origins)

\* The same URL twice, fetched at its first occurrence and served from the
\* mapping at the second: two documents, two impacts.
DuplicateUrlsWitness ==
    /\ pc = "done"
    /\ urls = <<"u1", "u1">>
    /\ exaCalls = <<[url |-> "u1", ok |-> TRUE]>>
    /\ Len(sources) = 2
    /\ Len(result.per_source_impact) = 2

\* ---- C27 -----------------------------------------------------------------
\* C27: every processed occurrence of a URL that has an override has its
\* document, whatever the override's shape; a field the override (or the first
\* result of its envelope) lacks is the default: id and url the URL, title
\* "(untitled)", text empty; an envelope with an empty results list gives all
\* four defaults.
OverrideDefaults ==
    /\ Cardinality({n \in 1..k : urls[n] \in DOMAIN exa_mocks}) =
          Cardinality({j \in 1..Len(origins) : urls[origins[j]] \in DOMAIN exa_mocks})
    /\ \A j \in 1..Len(sources) :
          LET u == urls[origins[j]]
          IN  u \in DOMAIN exa_mocks =>
                LET m == OverrideFields(exa_mocks[u])
                IN  /\ "id" \notin DOMAIN m => sources[j].id = u
                    /\ "title" \notin DOMAIN m => sources[j].title = "(untitled)"
                    /\ "url" \notin DOMAIN m => sources[j].url = u
                    /\ "text" \notin DOMAIN m => sources[j].text = <<>>
                    /\ exa_mocks[u] = [results |-> <<>>] =>
                          sources[j] = [id |-> u, title |-> "(untitled)", url |-> u,
                                        text |-> <<>>]

\* A URL whose override is an envelope with no result, and a second URL whose
\* override has only a text, both resolved.
OverrideDefaultsWitness ==
    /\ pc = "returned"
    /\ Len(sources) = 2
    /\ DOMAIN exa_mocks = {urls[1], urls[2]}
    /\ urls[1] # urls[2]
    /\ exa_mocks[urls[1]] = [results |-> <<>>]
    /\ sources[1].title = "(untitled)"
    /\ DOMAIN exa_mocks[urls[2]] = {"text"}
    /\ sources[2].id = urls[2]

====
